---------------------------- MODULE Spec2Model ----------------------------
(***************************************************************************)
(* License activation / validation / revocation of the license server in   *)
(* src/backend/app.py over the tables of src/backend/models.py.            *)
(*                                                                         *)
(* Time is counted in integer ticks; TicksPerDay ticks make one day, the   *)
(* unit of duration_days and of the 24 hour token window.                  *)
(*                                                                         *)
(* Spec     : requests are served one after the other, each handler runs   *)
(*            to completion at one instant of the clock.                   *)
(* SpecConc : two request threads run activate_license statement by        *)
(*            statement, each with its own database session, interleaved   *)
(*            with each other, with license creation and with the clock.   *)
(* SpecRace : one such thread interleaved with license creation and        *)
(*            revocation and with the clock.                               *)
(* SpecFault: Spec with commits that raise a storage error.                *)
(* SpecClock: validate_license in two steps, the checks and the response,  *)
(*            with the clock free to advance in between.                   *)
(***************************************************************************)
EXTENDS Integers, Sequences, FiniteSets

VARIABLES
    now,          \* the clock read by datetime.utcnow()
    licenses,     \* table licenses: row id = index
    devices,      \* table devices: row id = index
    audit_logs,   \* table audit_logs: row id = index
    tokens,       \* the issued bearer tokens the clients still hold
    resp,         \* the last request served and its response
    reqs          \* per request thread: where its handler stands

vars == <<now, licenses, devices, audit_logs, tokens, resp, reqs>>

store == <<licenses, devices, audit_logs>>

---------------------------------------------------------------------------
(* Bounds of the model *)

MaxTime == 2
TicksPerDay == 1
MaxDuration == 1
MaxAudit == 2
MaxTokens == 1

Keys == {"K1", "K2"}
DeviceIds == {"d1", "d2"}
Workers == {1, 2}
\* The only AdminUser row is the default admin made at startup.
Admins == {1}
Durations == (0 - MaxDuration)..MaxDuration
LicenseIds == 1..(Cardinality(Keys) + 1)

---------------------------------------------------------------------------
(* Values *)

\* A nullable column or an optional JSON field: None, or Some(v).
None == << >>
Some(v) == <<v>>

\* timedelta(hours=24), in ticks.
JWT_ACCESS_TOKEN_EXPIRES == TicksPerDay

\* timedelta(days=n), in ticks.
timedelta_days(n) == n * TicksPerDay

---------------------------------------------------------------------------
(* Queries *)

\* Mutant: the filter on the key is lost, every license row matches.
LicenseByKey_AnyRow(ls, k) == DOMAIN ls

\* Mutant: the key is looked up in a column it never matches.
LicenseByKey_WrongColumn(ls, k) == {}

\* License.query.filter_by(key=k): the matching row ids.
LicenseByKey(ls, k) == {i \in DOMAIN ls : ls[i].key = k}

\* Mutant: the identifier is looked up in a column it never matches.
DeviceByDeviceId_WrongColumn(ds, d) == {}

\* Mutant: the filter on the identifier is lost, every device row matches.
DeviceByDeviceId_AnyRow(ds, d) == DOMAIN ds

\* Device.query.filter_by(device_id=d): the matching row ids. The lookup is
\* global, not scoped to a license.
DeviceByDeviceId(ds, d) == {j \in DOMAIN ds : ds[j].device_id = d}

\* .first() of a query without ORDER BY: any one of the matching rows.
First(rows) == rows

\* Mutant: the status check is skipped.
NotActive_Skipped(lic) == FALSE

\* license_obj.status != 'active'
NotActive(lic) == lic.status # "active"

\* Mutant: the comparison of the expiry check is turned around.
ExpiryCheck_Flipped(lic, t) == lic.expires_at # None /\ lic.expires_at[1] > t

\* Mutant: a license counts as expired at its expiration time already.
ExpiryCheck_Inclusive(lic, t) ==
    lic.expires_at # None /\ lic.expires_at[1] <= t

\* license_obj.expires_at and license_obj.expires_at < datetime.utcnow()
ExpiryCheck(lic, t) == lic.expires_at # None /\ lic.expires_at[1] < t

---------------------------------------------------------------------------
(* Tokens *)

\* Mutant: the validity window is not added to the issue time.
IssueToken_NoWindow(d, lid, t) ==
    [user_id |-> d, license_id |-> lid, exp |-> t]

\* jwt.encode({'user_id', 'license_id', 'exp': utcnow() + window})
IssueToken(d, lid, t) ==
    [user_id |-> d, license_id |-> lid, exp |-> t + JWT_ACCESS_TOKEN_EXPIRES]

\* The clients keep at most MaxTokens tokens: a new one may displace any.
Wallets(tok) ==
    IF tok \in tokens \/ Cardinality(tokens) < MaxTokens
    THEN {tokens \cup {tok}}
    ELSE {(tokens \ {old}) \cup {tok} : old \in tokens}

---------------------------------------------------------------------------
(* Responses *)

\* The request served last and what it answered: the outcome, and the JSON
\* fields token, license_status / status and days_remaining.
Response(op, outcome, token, status, days) ==
    [op |-> op, outcome |-> outcome, token |-> token,
     status |-> status, days_remaining |-> days]

Fail(op, outcome) == Response(op, outcome, None, "", None)

\* A request thread that serves no request, and one inside
\* activate_license about to run the statement pc for (key, device_id),
\* holding the license row lic it loaded.
Idle == [pc |-> "idle", key |-> "", device_id |-> "", lic |-> 0]
Running(pc, k, d, i) == [pc |-> pc, key |-> k, device_id |-> d, lic |-> i]

---------------------------------------------------------------------------
(* State after db.create_all(): empty tables *)

Init ==
    /\ now = 0
    /\ licenses = << >>
    /\ devices = << >>
    /\ audit_logs = << >>
    /\ tokens = {}
    /\ resp = Fail("none", "none")
    /\ reqs = [w \in Workers |-> Idle]

---------------------------------------------------------------------------
(* POST /activate *)

\* Mutant: the row is bound but its registration time is not stamped.
NewDevice_Unstamped(d, lid, t) ==
    [device_id |-> d, license_id |-> lid, registered_at |-> 0,
     last_validated |-> None]

\* Device(device_id, license_id, registered_at=utcnow())
NewDevice(d, lid, t) ==
    [device_id |-> d, license_id |-> lid, registered_at |-> t,
     last_validated |-> None]

\* AuditLog(action='license_activated', license_id, device_id=device_id):
\* the column takes the caller's device identifier, which the default SQLite
\* store accepts as it is.
ActivationLog(d, lid, t) ==
    [action |-> "license_activated", license_id |-> Some(lid),
     device_id |-> Some(d)]

\* Mutant: any existing device row counts as bound to this license.
SameLicense_Always(dev, lid) == TRUE

\* Mutant: an existing device row never counts as bound to this license.
SameLicense_Never(dev, lid) == FALSE

\* existing_device.license_id == license_obj.id
SameLicense(dev, lid) == dev.license_id = lid

\* The body of activate_license from the expiry check on, for license row i.
ActivateFound(k, d, i) ==
    LET lic == licenses[i]
        tok == IssueToken(d, i, now)
    IN  IF NotActive(lic)
        THEN /\ resp' = Fail("activate", "Inactive")
             /\ UNCHANGED <<store, tokens>>
        ELSE IF ExpiryCheck(lic, now)
        THEN /\ licenses' = [licenses EXCEPT ![i].status = "expired"]
             /\ resp' = Fail("activate", "Expired")
             /\ UNCHANGED <<devices, audit_logs, tokens>>
        ELSE IF DeviceByDeviceId(devices, d) # {}
        THEN \E j \in First(DeviceByDeviceId(devices, d)) :
                IF SameLicense(devices[j], i)
                THEN /\ resp' = Response("activate", "Success",
                                         Some(tok), lic.status, None)
                     /\ tokens' \in Wallets(tok)
                     /\ UNCHANGED store
                ELSE /\ resp' = Fail("activate", "Conflict")
                     /\ UNCHANGED <<store, tokens>>
        ELSE /\ devices' = Append(devices, NewDevice(d, i, now))
             /\ audit_logs' = Append(audit_logs, ActivationLog(d, i, now))
             /\ resp' = Response("activate", "Success",
                                 Some(tok), lic.status, None)
             /\ tokens' \in Wallets(tok)
             /\ UNCHANGED licenses

\* A body without license_key or device_id: 400 before anything is read.
activate_missing_fields ==
    /\ resp' = Fail("activate", "MissingFields")
    /\ UNCHANGED <<now, store, tokens, reqs>>

activate_license(k, d) ==
    /\ UNCHANGED <<now, reqs>>
    /\ IF LicenseByKey(licenses, k) = {}
       THEN /\ resp' = Fail("activate", "NotFound")
            /\ UNCHANGED <<store, tokens>>
       ELSE \E i \in First(LicenseByKey(licenses, k)) : ActivateFound(k, d, i)

---------------------------------------------------------------------------
(* POST /validate *)

\* jwt.decode(token, secret, algorithms=['HS256']) at clock t: the outcomes.
\* A token whose exp is the current tick is inside or outside its window
\* depending on the sub-tick instant and on the library's comparison.
JwtDecode(tok, t) ==
    IF tok.exp < t THEN {"Expired"}
    ELSE IF tok.exp = t THEN {"Expired", "Ok"}
    ELSE {"Ok"}

\* (license_obj.expires_at - datetime.utcnow()).days
DaysRemaining(lic, t) ==
    IF lic.expires_at = None THEN None
    ELSE Some((lic.expires_at[1] - t) \div TicksPerDay)

\* The body of validate_license for the decoded subject claim user_id.
ValidateDevice(user_id) ==
    IF DeviceByDeviceId(devices, user_id) = {}
    THEN /\ resp' = Fail("validate", "DeviceNotFound")
         /\ UNCHANGED store
    ELSE \E j \in First(DeviceByDeviceId(devices, user_id)) :
        LET lid == devices[j].license_id IN
        IF lid \notin DOMAIN licenses
        THEN /\ resp' = Fail("validate", "LicenseNotFound")
             /\ UNCHANGED store
        ELSE IF NotActive(licenses[lid])
        THEN /\ resp' = Response("validate", "Inactive", None,
                                 licenses[lid].status, None)
             /\ UNCHANGED store
        ELSE IF ExpiryCheck(licenses[lid], now)
        THEN /\ licenses' = [licenses EXCEPT ![lid].status = "expired"]
             /\ resp' = Response("validate", "Expired", None,
                                 "expired", None)
             /\ UNCHANGED <<devices, audit_logs>>
        ELSE /\ devices' = [devices EXCEPT ![j].last_validated = Some(now)]
             /\ resp' = Response("validate", "Valid", None,
                                 licenses[lid].status,
                                 DaysRemaining(licenses[lid], now))
             /\ UNCHANGED <<licenses, audit_logs>>

\* jwt_required around validate_license, for a token the client holds.
validate_license(tok) ==
    /\ UNCHANGED <<now, tokens, reqs>>
    /\ \E o \in JwtDecode(tok, now) :
          IF o = "Ok"
          THEN ValidateDevice(tok.user_id)
          ELSE /\ resp' = Fail("validate", "TokenExpired")
               /\ UNCHANGED store

\* jwt_required: no Authorization header.
validate_missing ==
    /\ resp' = Fail("validate", "TokenMissing")
    /\ UNCHANGED <<now, store, tokens, reqs>>

\* jwt_required: a token that does not verify (bad signature or format).
validate_invalid ==
    /\ resp' = Fail("validate", "TokenInvalid")
    /\ UNCHANGED <<now, store, tokens, reqs>>

---------------------------------------------------------------------------
(* POST /admin/licenses/create *)

\* License(key, status='active', expires_at, created_by), created_at default
NewLicense(k, expires_at, admin, t) ==
    [key |-> k, status |-> "active", expires_at |-> Some(expires_at),
     revoked_at |-> None, revoked_by |-> None]

\* key = db.Column(..., unique=True): an insert of a key some row holds fails.
KeyTaken(ls, k) == \E i \in DOMAIN ls : ls[i].key = k

create_license(k, duration_days, admin) ==
    /\ UNCHANGED <<now, devices, audit_logs, tokens, reqs>>
    /\ IF k = ""
       THEN /\ resp' = Fail("create", "KeyRequired")
            /\ UNCHANGED licenses
       ELSE IF LicenseByKey(licenses, k) # {}
       THEN /\ resp' = Fail("create", "DuplicateKey")
            /\ UNCHANGED licenses
       ELSE IF KeyTaken(licenses, k)
       THEN \* the commit raises IntegrityError: rollback, flash an error
            /\ resp' = Fail("create", "Error")
            /\ UNCHANGED licenses
       ELSE /\ licenses' = Append(licenses,
                 NewLicense(k, now + timedelta_days(duration_days), admin, now))
            /\ resp' = Response("create", "Success", None, "active", None)

\* int(duration_days) raises on a form value that is no number: the handler
\* rolls back and flashes an error.
create_bad_duration ==
    /\ resp' = Fail("create", "Error")
    /\ UNCHANGED <<now, store, tokens, reqs>>

---------------------------------------------------------------------------
(* POST /admin/licenses/<id>/revoke *)

\* Mutant: the revocation is stamped but the status is left as it was.
Revoked_StatusKept(lic, admin, t) ==
    [lic EXCEPT !.revoked_at = Some(t), !.revoked_by = Some(admin)]

\* license_obj.status = 'revoked'; revoked_at = utcnow(); revoked_by = admin
Revoked(lic, admin, t) ==
    [lic EXCEPT !.status = "revoked", !.revoked_at = Some(t),
                !.revoked_by = Some(admin)]

\* AuditLog(action='license_revoked', license_id=license_id)
RevocationLog(lid, t) ==
    [action |-> "license_revoked", license_id |-> Some(lid),
     device_id |-> None]

revoke_license(license_id, admin) ==
    /\ Len(audit_logs) < MaxAudit
    /\ UNCHANGED <<now, devices, tokens, reqs>>
    /\ IF license_id \notin DOMAIN licenses
       THEN \* get_or_404 raises inside the try: rollback, flash an error
            /\ resp' = Fail("revoke", "Error")
            /\ UNCHANGED <<licenses, audit_logs>>
       ELSE /\ licenses' = [licenses EXCEPT
                              ![license_id] = Revoked(@, admin, now)]
            /\ audit_logs' = Append(audit_logs, RevocationLog(license_id, now))
            /\ resp' = Response("revoke", "Success", None, "revoked", None)

---------------------------------------------------------------------------
(* The clock *)

Tick ==
    /\ now < MaxTime
    /\ now' = now + 1
    /\ UNCHANGED <<store, tokens, resp, reqs>>

---------------------------------------------------------------------------
Next ==
    \/ \E k \in Keys, d \in DeviceIds : activate_license(k, d)
    \/ activate_missing_fields
    \/ \E tok \in tokens : validate_license(tok)
    \/ validate_missing
    \/ validate_invalid
    \/ \E k \in Keys \cup {""}, n \in Durations, a \in Admins :
          create_license(k, n, a)
    \/ create_bad_duration
    \/ \E l \in LicenseIds, a \in Admins : revoke_license(l, a)
    \/ Tick

Spec == Init /\ [][Next]_vars

---------------------------------------------------------------------------
(* POST /activate, statement by statement, in request thread w.  Each      *)
(* thread has its own session: a query reads the committed tables, a       *)
(* commit writes the session's pending changes at once.                    *)

Goto(w, r) == reqs' = [reqs EXCEPT ![w] = r]

\* License.query.filter_by(key=license_key).first() and the status check.
activate_load(w, k, d) ==
    /\ reqs[w].pc = "idle"
    /\ UNCHANGED <<now, store, tokens>>
    /\ IF LicenseByKey(licenses, k) = {}
       THEN /\ resp' = Fail("activate", "NotFound")
            /\ UNCHANGED reqs
       ELSE \E i \in First(LicenseByKey(licenses, k)) :
               IF NotActive(licenses[i])
               THEN /\ resp' = Fail("activate", "Inactive")
                    /\ UNCHANGED reqs
               ELSE /\ Goto(w, Running("expiry", k, d, i))
                    /\ UNCHANGED resp

\* The expiry check against the clock, and the commit of status expired.
activate_expiry(w) ==
    LET r == reqs[w] IN
    /\ r.pc = "expiry"
    /\ UNCHANGED <<now, devices, audit_logs, tokens>>
    /\ IF ExpiryCheck(licenses[r.lic], now)
       THEN /\ licenses' = [licenses EXCEPT ![r.lic].status = "expired"]
            /\ resp' = Fail("activate", "Expired")
            /\ Goto(w, Idle)
       ELSE /\ Goto(w, [r EXCEPT !.pc = "find_device"])
            /\ UNCHANGED <<licenses, resp>>

\* Device.query.filter_by(device_id=device_id).first() and the branch on it.
activate_find_device(w) ==
    LET r == reqs[w]
        tok == IssueToken(r.device_id, r.lic, now)
    IN  /\ r.pc = "find_device"
        /\ UNCHANGED <<now, store>>
        /\ IF DeviceByDeviceId(devices, r.device_id) # {}
           THEN /\ Goto(w, Idle)
                /\ \E j \in First(DeviceByDeviceId(devices, r.device_id)) :
                      IF SameLicense(devices[j], r.lic)
                      THEN /\ resp' = Response("activate", "Success",
                                      Some(tok), licenses[r.lic].status, None)
                           /\ tokens' \in Wallets(tok)
                      ELSE /\ resp' = Fail("activate", "Conflict")
                           /\ UNCHANGED tokens
           ELSE /\ Goto(w, [r EXCEPT !.pc = "register"])
                /\ UNCHANGED <<resp, tokens>>

\* db.session.add(device); db.session.add(audit_log); db.session.commit()
activate_register(w) ==
    LET r == reqs[w] IN
    /\ r.pc = "register"
    /\ devices' = Append(devices, NewDevice(r.device_id, r.lic, now))
    /\ audit_logs' = Append(audit_logs, ActivationLog(r.device_id, r.lic, now))
    /\ Goto(w, [r EXCEPT !.pc = "token"])
    /\ UNCHANGED <<now, licenses, tokens, resp>>

\* jwt.encode(...) and the response, which reloads the license status.
activate_token(w) ==
    LET r == reqs[w]
        tok == IssueToken(r.device_id, r.lic, now)
    IN  /\ r.pc = "token"
        /\ resp' = Response("activate", "Success", Some(tok),
                            licenses[r.lic].status, None)
        /\ tokens' \in Wallets(tok)
        /\ Goto(w, Idle)
        /\ UNCHANGED <<now, store>>

\* The environment of SpecConc: both threads activate the same device, with
\* either key; the administrator creates licenses of these durations.
ConcDeviceIds == {"d1"}
ConcDurations == {0, 1}

NextConc ==
    \/ \E w \in Workers, k \in Keys, d \in ConcDeviceIds :
          activate_load(w, k, d)
    \/ \E w \in Workers : activate_expiry(w)
    \/ \E w \in Workers : activate_find_device(w)
    \/ \E w \in Workers : activate_register(w)
    \/ \E w \in Workers : activate_token(w)
    \/ \E k \in Keys, n \in ConcDurations, a \in Admins :
          create_license(k, n, a)
    \/ Tick

SpecConc == Init /\ [][NextConc]_vars

\* The environment of SpecRace: one thread inside activate_license, while
\* the administrator creates and revokes licenses.
RaceWorkers == {1}

NextRace ==
    \/ \E w \in RaceWorkers, k \in Keys, d \in ConcDeviceIds :
          activate_load(w, k, d)
    \/ \E w \in RaceWorkers : activate_expiry(w)
    \/ \E w \in RaceWorkers : activate_find_device(w)
    \/ \E w \in RaceWorkers : activate_register(w)
    \/ \E w \in RaceWorkers : activate_token(w)
    \/ \E k \in Keys, n \in ConcDurations, a \in Admins :
          create_license(k, n, a)
    \/ \E l \in LicenseIds, a \in Admins : revoke_license(l, a)
    \/ Tick

SpecRace == Init /\ [][NextRace]_vars

---------------------------------------------------------------------------
(* Commits that raise.  db.session.commit() can fail with a storage error  *)
(* (locked or full database, lost connection); every handler below wraps   *)
(* its body in try / except Exception: db.session.rollback().              *)

\* activate_license: the commit of the expiry correction or the commit of
\* the new Device and audit entry raises; the rollback drops the pending
\* writes and the handler answers 500.
activate_storage_error(k, d) ==
    /\ \E i \in First(LicenseByKey(licenses, k)) :
          /\ ~NotActive(licenses[i])
          /\ \/ ExpiryCheck(licenses[i], now)
             \/ DeviceByDeviceId(devices, d) = {}
    /\ resp' = Fail("activate", "Error")
    /\ UNCHANGED <<now, store, tokens, reqs>>

\* create_license: the commit of the new license raises.
create_storage_error(k, duration_days, admin) ==
    /\ k # ""
    /\ LicenseByKey(licenses, k) = {}
    /\ resp' = Fail("create", "Error")
    /\ UNCHANGED <<now, store, tokens, reqs>>

\* revoke_license: the first commit, of the revoked status, raises.
revoke_storage_error(license_id, admin) ==
    /\ license_id \in DOMAIN licenses
    /\ resp' = Fail("revoke", "Error")
    /\ UNCHANGED <<now, store, tokens, reqs>>

\* revoke_license: the first commit has stored the revoked status, the
\* second commit, of the audit entry, raises; the rollback has only the
\* audit entry left to drop.
revoke_audit_storage_error(license_id, admin) ==
    /\ license_id \in DOMAIN licenses
    /\ licenses' = [licenses EXCEPT ![license_id] = Revoked(@, admin, now)]
    /\ resp' = Fail("revoke", "Error")
    /\ UNCHANGED <<now, devices, audit_logs, tokens, reqs>>

\* A storage error in one of the three handlers.
StorageError ==
    \/ \E k \in Keys, d \in ConcDeviceIds : activate_storage_error(k, d)
    \/ \E k \in Keys, n \in ConcDurations, a \in Admins :
          create_storage_error(k, n, a)
    \/ \E l \in LicenseIds, a \in Admins : revoke_storage_error(l, a)
    \/ \E l \in LicenseIds, a \in Admins : revoke_audit_storage_error(l, a)

NextFault ==
    \/ \E k \in Keys, d \in ConcDeviceIds : activate_license(k, d)
    \/ \E k \in Keys, n \in ConcDurations, a \in Admins :
          create_license(k, n, a)
    \/ \E l \in LicenseIds, a \in Admins : revoke_license(l, a)
    \/ \E k \in Keys, d \in ConcDeviceIds : activate_storage_error(k, d)
    \/ \E k \in Keys, n \in ConcDurations, a \in Admins :
          create_storage_error(k, n, a)
    \/ \E l \in LicenseIds, a \in Admins : revoke_storage_error(l, a)
    \/ \E l \in LicenseIds, a \in Admins : revoke_audit_storage_error(l, a)
    \/ Tick

SpecFault == Init /\ [][NextFault]_vars

---------------------------------------------------------------------------
(* POST /validate in two steps, in request thread w: the checks with their *)
(* writes (the device and license queries, the status and expiry checks,   *)
(* last_validated), then the response, whose days_remaining reads          *)
(* datetime.utcnow() again.                                                *)

validate_check(w, tok) ==
    /\ reqs[w].pc = "idle"
    /\ UNCHANGED <<now, tokens>>
    /\ \E o \in JwtDecode(tok, now) :
          IF o # "Ok"
          THEN /\ resp' = Fail("validate", "TokenExpired")
               /\ UNCHANGED <<store, reqs>>
          ELSE IF DeviceByDeviceId(devices, tok.user_id) = {}
          THEN /\ resp' = Fail("validate", "DeviceNotFound")
               /\ UNCHANGED <<store, reqs>>
          ELSE \E j \in First(DeviceByDeviceId(devices, tok.user_id)) :
              LET lid == devices[j].license_id IN
              IF lid \notin DOMAIN licenses
              THEN /\ resp' = Fail("validate", "LicenseNotFound")
                   /\ UNCHANGED <<store, reqs>>
              ELSE IF NotActive(licenses[lid])
              THEN /\ resp' = Response("validate", "Inactive", None,
                                       licenses[lid].status, None)
                   /\ UNCHANGED <<store, reqs>>
              ELSE IF ExpiryCheck(licenses[lid], now)
              THEN /\ licenses' = [licenses EXCEPT
                                     ![lid].status = "expired"]
                   /\ resp' = Response("validate", "Expired", None,
                                       "expired", None)
                   /\ UNCHANGED <<devices, audit_logs, reqs>>
              ELSE /\ devices' = [devices EXCEPT
                                    ![j].last_validated = Some(now)]
                   /\ Goto(w, Running("respond", "", tok.user_id, lid))
                   /\ UNCHANGED <<licenses, audit_logs, resp>>

\* return jsonify({'valid': True, ..., 'days_remaining': ...})
validate_respond(w) ==
    LET r == reqs[w] IN
    /\ r.pc = "respond"
    /\ resp' = Response("validate", "Valid", None, licenses[r.lic].status,
                        DaysRemaining(licenses[r.lic], now))
    /\ Goto(w, Idle)
    /\ UNCHANGED <<now, store, tokens>>

\* The environment of SpecClock: one request thread, one device.
ClockWorkers == {1}

NextClock ==
    \/ \E k \in Keys, n \in ConcDurations, a \in Admins :
          create_license(k, n, a)
    \/ \E k \in Keys, d \in ConcDeviceIds : activate_license(k, d)
    \/ \E w \in ClockWorkers, tok \in tokens : validate_check(w, tok)
    \/ \E w \in ClockWorkers : validate_respond(w)
    \/ Tick

SpecClock == Init /\ [][NextClock]_vars

---------------------------------------------------------------------------
(* Properties of the sequential server (Spec) *)

\* The rows of device identifier d, and its license_activated audit entries.
RowsOf(ds, d) == {j \in DOMAIN ds : ds[j].device_id = d}
ActivationsOf(logs, d) ==
    {n \in DOMAIN logs : logs[n].action = "license_activated"
                          /\ logs[n].device_id = Some(d)}

\* License row l can be activated at the current time.
Usable(l) ==
    /\ licenses[l].status = "active"
    /\ (licenses[l].expires_at = None \/ licenses[l].expires_at[1] >= now)

\* C1: after any sequence of non-overlapping create, activate, validate and
\* revoke requests, no two Device rows carry the same device identifier, so
\* no device identifier is bound to two licenses.
C1_DeviceBoundOnce ==
    \A i, j \in DOMAIN devices :
        devices[i].device_id = devices[j].device_id
            => i = j /\ devices[i].license_id = devices[j].license_id

\* C1 witness: both licenses exist, a device is bound, and an activation of
\* a bound device with the other license has just been refused.
C1_Witness ==
    /\ Len(licenses) = 2
    /\ Len(devices) >= 1
    /\ resp.op = "activate" /\ resp.outcome = "Conflict"

\* C2: when device d is bound to license A and activate is called with d
\* and the key of another license B that is active and unexpired, the call
\* fails with Conflict and licenses, devices (so d's binding to A) and the
\* audit log are unchanged.
C2_ConflictKeepsBinding ==
    [][\A k \in Keys, d \in DeviceIds :
        (/\ resp'.op = "activate"
         /\ \E b \in DOMAIN licenses, j \in DOMAIN devices :
               /\ licenses[b].key = k /\ Usable(b)
               /\ devices[j].device_id = d /\ devices[j].license_id # b
         /\ activate_license(k, d))
        => /\ resp'.outcome = "Conflict"
           /\ resp'.token = None
           /\ devices' = devices /\ audit_logs' = audit_logs
           /\ licenses' = licenses]_vars

\* C2 witness: a Conflict was answered while the refused license is usable.
C2_Witness ==
    /\ resp.op = "activate" /\ resp.outcome = "Conflict"
    /\ \E b \in DOMAIN licenses, j \in DOMAIN devices :
          Usable(b) /\ devices[j].license_id # b

\* C7: activate with a key that matches no stored license answers NotFound,
\* whatever the device identifier (bound or not), and leaves licenses,
\* devices and audit entries unchanged.
C7_UnknownKeyNotFound ==
    [][\A k \in Keys, d \in DeviceIds :
        (/\ resp'.op = "activate"
         /\ \A l \in DOMAIN licenses : licenses[l].key # k
         /\ activate_license(k, d))
        => /\ resp'.outcome = "NotFound"
           /\ resp'.token = None
           /\ UNCHANGED store]_vars

\* C7 witness: NotFound was answered while every device identifier is bound
\* to a license, so the device identifier of the request was bound.
C7_Witness ==
    /\ resp.op = "activate" /\ resp.outcome = "NotFound"
    /\ \A d \in DeviceIds : RowsOf(devices, d) # {}


\* C3: activate is idempotent for a repeated (license key, device) pair:
\* every successful activate answers a token for the device and leaves
\* exactly one Device row and at most one license_activated audit entry for
\* the device identifier; and an activate of a device already bound to the
\* license of the key, the license being active and unexpired, succeeds and
\* changes nothing in the store.
C3_ActivateIdempotent ==
    [][\A k \in Keys, d \in DeviceIds :
        (resp'.op = "activate" /\ activate_license(k, d))
        => /\ resp'.outcome = "Success"
              => /\ resp'.token # None
                 /\ resp'.token[1].user_id = d
                 /\ resp'.token[1] \in tokens'
                 /\ Cardinality(RowsOf(devices', d)) = 1
                 /\ Cardinality(ActivationsOf(audit_logs', d)) <= 1
           /\ (\E l \in DOMAIN licenses, j \in DOMAIN devices :
                  /\ licenses[l].key = k /\ Usable(l)
                  /\ devices[j].device_id = d /\ devices[j].license_id = l)
              => /\ resp'.outcome = "Success"
                 /\ UNCHANGED store]_vars

\* C3 witness: a repeated activation has succeeded: the token answered was
\* issued later than the registration of its device, which has one row.
C3_Witness ==
    /\ resp.op = "activate" /\ resp.outcome = "Success"
    /\ \E j \in DOMAIN devices :
          /\ devices[j].device_id = resp.token[1].user_id
          /\ resp.token[1].exp >
                devices[j].registered_at + JWT_ACCESS_TOKEN_EXPIRES
    /\ Cardinality(RowsOf(devices, resp.token[1].user_id)) = 1

\* The outcomes of jwt_required that keep a request from validate_license.
TokenFailures == {"TokenMissing", "TokenExpired", "TokenInvalid"}

\* What C4 asks of a request that checks license row l.
C4_Checked(l) ==
    /\ (/\ licenses[l].status = "active"
        /\ licenses[l].expires_at # None
        /\ licenses[l].expires_at[1] < now)
       => /\ licenses'[l].status = "expired"
          /\ resp'.outcome = "Expired"
          /\ resp'.token = None
    /\ licenses[l].status # "active"
       => /\ resp'.outcome = "Inactive"
          /\ resp'.token = None
          /\ licenses' = licenses

\* C4: lazy expiry is persisted and permanent: an activate or validate that
\* checks an active license whose expiration is before the current time
\* stores status expired and fails with Expired; an activate or validate on
\* a license that is not active fails (Inactive) and writes nothing; and no
\* request ever turns a license that is not active back to active.
C4_LazyExpiryPermanent ==
    [][/\ \A l \in DOMAIN licenses :
            licenses[l].status # "active" => licenses'[l].status # "active"
       /\ \A k \in Keys, d \in DeviceIds :
            (resp'.op = "activate" /\ activate_license(k, d))
            => \A l \in DOMAIN licenses : licenses[l].key = k => C4_Checked(l)
       /\ \A tok \in tokens :
            (/\ resp'.op = "validate"
             /\ resp'.outcome \notin TokenFailures
             /\ validate_license(tok))
            => \A j \in DOMAIN devices :
                  devices[j].device_id = tok.user_id
                     => C4_Checked(devices[j].license_id)]_vars

\* C4 witness: after the expiry was stored, a later validate on the license
\* has failed and reported the stored status expired.
C4_Witness ==
    /\ resp.op = "validate" /\ resp.outcome = "Inactive"
    /\ resp.status = "expired"
    /\ \E j \in DOMAIN devices :
          licenses[devices[j].license_id].status = "expired"

\* C5: revoke sets the status revoked and leaves every Device row as it was;
\* a revoked license stays revoked whatever request follows; and every
\* validate with a verified token of a device bound to a revoked license
\* fails (Inactive) and reports status revoked.
C5_RevokedStaysInvalid ==
    [][/\ \A l \in DOMAIN licenses :
            licenses[l].status = "revoked" => licenses'[l].status = "revoked"
       /\ \A l \in DOMAIN licenses, a \in Admins :
            (resp'.op = "revoke" /\ revoke_license(l, a))
            => /\ licenses'[l].status = "revoked"
               /\ devices' = devices
       /\ \A tok \in tokens :
            (/\ resp'.op = "validate"
             /\ resp'.outcome \notin TokenFailures
             /\ validate_license(tok))
            => \A j \in DOMAIN devices :
                  (/\ devices[j].device_id = tok.user_id
                   /\ licenses[devices[j].license_id].status = "revoked")
                  => /\ resp'.outcome = "Inactive"
                     /\ resp'.status = "revoked"
                     /\ devices' = devices]_vars

\* C5 witness: a validate for a device whose license was revoked has failed
\* reporting revoked, the device row still being there.
C5_Witness ==
    /\ resp.op = "validate" /\ resp.outcome = "Inactive"
    /\ resp.status = "revoked"
    /\ \E j \in DOMAIN devices :
          licenses[devices[j].license_id].status = "revoked"

\* The status changes of the licenses in a step are among `allowed`, and no
\* license row disappears.
StatusChangesWithin(allowed) ==
    /\ DOMAIN licenses \subseteq DOMAIN licenses'
    /\ \A l \in DOMAIN licenses :
          licenses'[l].status # licenses[l].status
             => <<licenses[l].status, licenses'[l].status>> \in allowed

\* C6 as stated: the only status changes are active to expired and active to
\* revoked; expired and revoked licenses never change status again.
C6_OnlyFromActive ==
    [][StatusChangesWithin({<<"active", "expired">>,
                            <<"active", "revoked">>})]_vars

\* C6 as amended: over any sequence of non-overlapping requests the only
\* status changes are active to expired, active to revoked and, by revoke,
\* expired to revoked; a revoked license never changes status again and no
\* license returns to active.
C6_OneDirectional ==
    [][/\ StatusChangesWithin({<<"active", "expired">>,
                               <<"active", "revoked">>,
                               <<"expired", "revoked">>})
       /\ (\E l \in DOMAIN licenses :
              licenses[l].status = "expired" /\ licenses'[l].status = "revoked")
          => resp'.op = "revoke"]_vars

\* C6 witness: a revoke has made a license revoked whose expiry had passed
\* when it was revoked, while another license is expired.
C6_Witness ==
    /\ resp.op = "revoke" /\ resp.outcome = "Success"
    /\ \E l \in DOMAIN licenses :
          /\ licenses[l].status = "revoked"
          /\ licenses[l].expires_at[1] < licenses[l].revoked_at[1]
    /\ \E l \in DOMAIN licenses : licenses[l].status = "expired"

\* C8: a token answered by activate at time T carries expiration T + W (W
\* the validity window) and the device identifier as subject; a token the
\* client presents is verified at every time before its expiration and
\* rejected as expired at every time after it; a request without a token is
\* rejected as missing.
C8_TokenWindow ==
    [][/\ \A k \in Keys, d \in DeviceIds :
            (/\ resp'.op = "activate" /\ resp'.outcome = "Success"
             /\ activate_license(k, d))
            => /\ resp'.token # None
               /\ resp'.token[1].exp = now + JWT_ACCESS_TOKEN_EXPIRES
               /\ resp'.token[1].user_id = d
               /\ resp'.token[1] \in tokens'
       /\ \A tok \in tokens :
            (resp'.op = "validate" /\ validate_license(tok))
            => /\ now < tok.exp => resp'.outcome \notin TokenFailures
               /\ now > tok.exp => resp'.outcome = "TokenExpired"
       /\ validate_missing
            => resp'.outcome = "TokenMissing" /\ UNCHANGED store]_vars

\* C8 witness: a token past its expiration has been rejected as expired.
C8_Witness ==
    /\ resp.op = "validate" /\ resp.outcome = "TokenExpired"
    /\ \E tok \in tokens : tok.exp < now

\* C9: under concurrency, two activate requests for the same device
\* identifier whose read and write steps interleave never both act as first:
\* there is at most one Device row and at most one license_activated audit
\* entry for each device identifier.
C9_NoDoubleFirst ==
    \A d \in DeviceIds :
        /\ Cardinality(RowsOf(devices, d)) <= 1
        /\ Cardinality(ActivationsOf(audit_logs, d)) <= 1

\* C10: revoke of a license that is already revoked succeeds and leaves the
\* license (status, revocation time, revoker) and the audit log as they were.
C10_RevokeRevokedNoOp ==
    [][\A l \in DOMAIN licenses, a \in Admins :
        (/\ resp'.op = "revoke"
         /\ licenses[l].status = "revoked"
         /\ revoke_license(l, a))
        => /\ resp'.outcome = "Success"
           /\ licenses'[l] = licenses[l]
           /\ audit_logs' = audit_logs]_vars

\* C11: create with a negative duration_days is rejected as a validation
\* error and stores no license; create with a non-negative duration that
\* succeeds stores an active license expiring at creation time plus
\* duration_days.
C11_NegativeDurationRejected ==
    [][\A k \in Keys, n \in Durations, a \in Admins :
        (resp'.op = "create" /\ create_license(k, n, a))
        => /\ n < 0 => /\ licenses' = licenses
                       /\ resp'.outcome # "Success"
           /\ (n >= 0 /\ resp'.outcome = "Success")
              => /\ Len(licenses') = Len(licenses) + 1
                 /\ licenses'[Len(licenses')].status = "active"
                 /\ licenses'[Len(licenses')].expires_at
                       = Some(now + n * TicksPerDay)]_vars

\* C12: license keys are unique in every state; create with a key that a
\* license already holds, whatever its status, fails with DuplicateKey and
\* leaves licenses, devices and audit entries unchanged; and no request
\* deletes a license or changes its key.
C12_KeysUnique ==
    [][/\ \A i, j \in DOMAIN licenses' :
            licenses'[i].key = licenses'[j].key => i = j
       /\ \A l \in DOMAIN licenses :
            l \in DOMAIN licenses' /\ licenses'[l].key = licenses[l].key
       /\ \A k \in Keys, n \in Durations, a \in Admins :
            (/\ resp'.op = "create"
             /\ \E l \in DOMAIN licenses : licenses[l].key = k
             /\ create_license(k, n, a))
            => /\ resp'.outcome = "DuplicateKey"
               /\ UNCHANGED store]_vars

\* C12 witness: a create was refused as a duplicate while the licenses are
\* an expired and a revoked one.
C12_Witness ==
    /\ resp.op = "create" /\ resp.outcome = "DuplicateKey"
    /\ Len(licenses) = 2
    /\ \E l \in DOMAIN licenses : licenses[l].status = "expired"
    /\ \E l \in DOMAIN licenses : licenses[l].status = "revoked"

\* C13: validate with a verified token succeeds exactly when a Device row of
\* the token's subject exists, its license is active, and the license has
\* no expiration or the current time is not past it; on success that row's
\* last_validated becomes the current time, on every failure the Device
\* rows are unchanged.
C13_ValidateOutcome ==
    [][\A tok \in tokens :
        (/\ resp'.op = "validate"
         /\ resp'.outcome \notin TokenFailures
         /\ validate_license(tok))
        => /\ resp'.outcome = "Valid"
              <=> \E j \in DOMAIN devices :
                     /\ devices[j].device_id = tok.user_id
                     /\ licenses[devices[j].license_id].status = "active"
                     /\ \/ licenses[devices[j].license_id].expires_at = None
                        \/ licenses[devices[j].license_id].expires_at[1] >= now
           /\ resp'.outcome = "Valid"
              => \E j \in DOMAIN devices :
                     /\ devices[j].device_id = tok.user_id
                     /\ devices' = [devices EXCEPT
                                       ![j].last_validated = Some(now)]
           /\ resp'.outcome # "Valid" => devices' = devices]_vars

\* C13 witness: a validate has succeeded at the very expiration time of the
\* license and stamped the device row with the current time.
C13_Witness ==
    /\ resp.op = "validate" /\ resp.outcome = "Valid"
    /\ \E j \in DOMAIN devices :
          /\ devices[j].last_validated = Some(now)
          /\ licenses[devices[j].license_id].expires_at = Some(now)

\* C14: the uniqueness is per device, not per license: activate of an active
\* unexpired license with a device identifier that has no Device row
\* succeeds and adds one row binding the identifier to that license,
\* whatever rows are already bound to the license, and leaves those as
\* they were.
C14_ManyDevicesPerLicense ==
    [][\A k \in Keys, d \in DeviceIds :
        (/\ resp'.op = "activate"
         /\ RowsOf(devices, d) = {}
         /\ \E l \in DOMAIN licenses : licenses[l].key = k /\ Usable(l)
         /\ activate_license(k, d))
        => /\ resp'.outcome = "Success"
           /\ Len(devices') = Len(devices) + 1
           /\ devices'[Len(devices')].device_id = d
           /\ licenses[devices'[Len(devices')].license_id].key = k
           /\ \A j \in DOMAIN devices : devices'[j] = devices[j]]_vars

\* C14 witness: the second device has just been bound to the license the
\* first device is bound to.
C14_Witness ==
    /\ resp.op = "activate" /\ resp.outcome = "Success"
    /\ Len(devices) = 2
    /\ devices[1].license_id = devices[2].license_id
    /\ devices[1].device_id # devices[2].device_id
    /\ resp.token[1].user_id = devices[2].device_id
    /\ resp.token[1].exp = devices[2].registered_at + JWT_ACCESS_TOKEN_EXPIRES

\* The outcomes of a failing activate.
ActivateFailures == {"NotFound", "Inactive", "Expired", "Conflict"}

\* C15: activate changes the store only as follows: a successful activation
\* of a device identifier without a row appends exactly one Device row
\* (bound to the license of the key, registered now) and exactly one
\* license_activated audit entry of that license, and leaves the licenses;
\* every failing activate leaves the Device rows and the audit log, and
\* writes at most the active to expired correction of the license of the key.
C15_ActivateFrame ==
    [][\A k \in Keys, d \in DeviceIds :
        (resp'.op = "activate" /\ activate_license(k, d))
        => /\ (resp'.outcome = "Success" /\ RowsOf(devices, d) = {})
              => \E l \in DOMAIN licenses :
                    /\ licenses[l].key = k
                    /\ devices' = Append(devices,
                          [device_id |-> d, license_id |-> l,
                           registered_at |-> now, last_validated |-> None])
                    /\ Len(audit_logs') = Len(audit_logs) + 1
                    /\ SubSeq(audit_logs', 1, Len(audit_logs)) = audit_logs
                    /\ audit_logs'[Len(audit_logs')].action
                          = "license_activated"
                    /\ audit_logs'[Len(audit_logs')].license_id = Some(l)
                    /\ licenses' = licenses
           /\ resp'.outcome \in ActivateFailures
              => /\ devices' = devices
                 /\ audit_logs' = audit_logs
                 /\ DOMAIN licenses' = DOMAIN licenses
                 /\ \A l \in DOMAIN licenses :
                       licenses'[l] # licenses[l]
                          => /\ licenses[l].key = k
                             /\ licenses[l].status = "active"
                             /\ licenses'[l] = [licenses[l] EXCEPT
                                                  !.status = "expired"]
           /\ resp'.outcome \in ActivateFailures \cup {"Success"}]_vars

\* C15 witness: a failing activate has written the expiry correction while
\* device rows and audit entries exist.
C15_Witness ==
    /\ resp.op = "activate" /\ resp.outcome = "Expired"
    /\ Len(devices) >= 1 /\ Len(audit_logs) >= 1
    /\ \E l \in DOMAIN licenses : licenses[l].status = "expired"

\* C16: every change of a license status (the lazy expiry, any change to
\* revoked) and every creation of a Device row comes with an audit entry
\* of that license appended by the same operation.
C16_StatusChangesAudited ==
    [][/\ \A l \in DOMAIN licenses :
            licenses'[l].status # licenses[l].status
               => /\ Len(audit_logs') = Len(audit_logs) + 1
                  /\ audit_logs'[Len(audit_logs')].license_id = Some(l)
       /\ Len(devices') > Len(devices)
            => /\ Len(audit_logs') = Len(audit_logs) + 1
               /\ audit_logs'[Len(audit_logs')].action = "license_activated"
               /\ audit_logs'[Len(audit_logs')].license_id
                     = Some(devices'[Len(devices')].license_id)]_vars

\* C17: with requests interleaved, a revoked status is never overwritten:
\* a license that is revoked stays revoked, also when an activate that read
\* its status before the revoke writes its expiry correction after it.
C17_RevokedNotOverwritten ==
    [][\A l \in DOMAIN licenses :
          licenses[l].status = "revoked"
             => licenses'[l].status = "revoked"]_vars

\* C18: a storage error at a commit of activate, create or revoke leaves
\* the store as it was before the request; in no state is a license revoked
\* without a license_revoked audit entry of it, nor is there a Device row
\* without a license_activated audit entry of its license.
C18_StorageErrorRollsBack ==
    [][/\ StorageError => UNCHANGED store
       /\ \A l \in DOMAIN licenses' :
            licenses'[l].status = "revoked"
               => \E n \in DOMAIN audit_logs' :
                     /\ audit_logs'[n].action = "license_revoked"
                     /\ audit_logs'[n].license_id = Some(l)
       /\ \A j \in DOMAIN devices' :
            \E n \in DOMAIN audit_logs' :
               /\ audit_logs'[n].action = "license_activated"
               /\ audit_logs'[n].license_id = Some(devices'[j].license_id)]_vars

\* C19: the device reference of every license_activated audit entry is the
\* record id of a Device row, and the entry's license reference is the
\* license that row is bound to.
C19_AuditRefersToDeviceRow ==
    \A n \in DOMAIN audit_logs :
        audit_logs[n].action = "license_activated"
           => /\ audit_logs[n].device_id # None
              /\ audit_logs[n].device_id[1] \notin DeviceIds
              /\ audit_logs[n].device_id[1] \in DOMAIN devices
              /\ audit_logs[n].license_id
                    = Some(devices[audit_logs[n].device_id[1]].license_id)

\* C20: a valid response for a license with an expiration carries a
\* days_remaining that is a whole number, not negative, and the whole days
\* from the time of the validity check (kept in last_validated) to the
\* expiration, also when the clock advances before the response is built.
C20_DaysRemainingNonNegative ==
    [][\A w \in ClockWorkers :
          (reqs[w].pc = "respond" /\ validate_respond(w))
          => LET lic == licenses[reqs[w].lic] IN
             IF lic.expires_at = None
             THEN resp'.days_remaining = None
             ELSE /\ resp'.days_remaining # None
                  /\ resp'.days_remaining[1] >= 0
                  /\ \E j \in DOMAIN devices :
                        /\ devices[j].device_id = reqs[w].device_id
                        /\ devices[j].last_validated # None
                        /\ resp'.days_remaining[1]
                              = (lic.expires_at[1]
                                   - devices[j].last_validated[1])
                                \div TicksPerDay]_vars

===========================================================================
